---------------------------- MODULE Spec2Model ----------------------------
(***************************************************************************)
(* A model of the apnoxide push client: the token cache of APNClient::sign *)
(* (src/src/client.rs), the request/response protocol of APNClient::push,  *)
(* the serde serialization of Payload / Notification (src/src/types.rs)    *)
(* and the Endpoint <-> String conversions.                                *)
(*                                                                         *)
(* Conventions.                                                            *)
(*   Option<T>       None is <<>>, Some(x) is <<x>>.                       *)
(*   String          a sequence of one-character strings, where the text   *)
(*                   is inspected character by character (Endpoint); a     *)
(*                   sequence of bytes where the bytes are inspected       *)
(*                   (header values); a TLA+ string where it is opaque.    *)
(*   JSON            a value is a record tagged t: "num", "str", "bool",   *)
(*                   "null", "arr" or "obj"; the obj field of an object is *)
(*                   the sequence of <<key, value>> pairs in the order     *)
(*                   serde_json writes them (a written object may repeat a *)
(*                   key).                                                 *)
(*   Time            whole seconds since the Unix epoch.                   *)
(***************************************************************************)
EXTENDS Integers, Sequences, FiniteSets, TLC

VARIABLES
    \* ---- APNClient (client.rs:89-94) and the environment of push
    config,       \* APNClient.config : APNClientConfig, fixed at construction
    now,          \* the system clock, SystemTime::now()
    token,        \* APNClient.token : Option<String>
    signed_time,  \* APNClient.signed_time : SystemTime
    pc,           \* "idle", or "sending" while push awaits req.send()
    request,      \* Option: the request handed to the transport by this push
    response,     \* Option: what the transport answered to this push
    result,       \* Option: what the last finished push returned
    lastOpt,      \* Option: the PushOption of the current / last push
    lastSign,     \* Option: the last successful sign [tok, at, fresh]
    prevSign,     \* Option: the successful sign before lastSign
    signOutcome,  \* Option: how the sign of the current / last push ended
    signs,        \* number of invocations of the signing primitive (encode)
    calls,        \* number of push calls started
    sent,         \* number of requests submitted to the transport
    ticks,        \* number of clock steps taken
    monotone,     \* the clock has never been set back
    \* ---- building and serializing a Payload (types.rs)
    payload,      \* Option<Payload>: the value under construction
    buildError,   \* Option: the BuildError a with_* builder returned
    wire,         \* Option: serde_json's output for payload
    \* ---- Endpoint conversions (types.rs:181-235)
    endpoint,     \* Option<Endpoint>
    epString,     \* Option<String>
    epParsed      \* Option<Result<Endpoint, ()>>

clientVars == <<config, now, token, signed_time, pc, request, response, result, lastOpt,
                lastSign, prevSign, signOutcome, signs, calls, sent, ticks, monotone>>
payloadVars == <<payload, buildError, wire>>
endpointVars == <<endpoint, epString, epParsed>>
vars == <<clientVars, payloadVars, endpointVars>>

None == <<>>
Some(x) == <<x>>
IsSome(o) == o # <<>>
Unwrap(o) == o[1]

(***************************************************************************)
(* Bounds of the model.                                                    *)
(***************************************************************************)
MaxTicks == 3
MaxPushes == 3
MaxSet == 2
MaxHostLen == 2
StartTime == 5

(***************************************************************************)
(* Endpoint (types.rs:181-241)                                             *)
(***************************************************************************)
HostSandbox ==
    <<"a","p","i",".","s","a","n","d","b","o","x",".","p","u","s","h",".",
      "a","p","p","l","e",".","c","o","m">>
HostProduction ==
    <<"a","p","i",".","p","u","s","h",".","a","p","p","l","e",".","c","o","m">>

PortDefault == 443
PortAlter == 2197
U16Max == 65535

development == [endpoint |-> HostSandbox, port |-> PortDefault]
development_alter == [endpoint |-> HostSandbox, port |-> PortAlter]
production == [endpoint |-> HostProduction, port |-> PortDefault]
production_alter == [endpoint |-> HostProduction, port |-> PortAlter]
EndpointDefault == production

DigitChars == <<"0","1","2","3","4","5","6","7","8","9">>

\* u16::to_string / Display: decimal digits, no sign, no leading zero.
RECURSIVE ToDecimal(_)
ToDecimal(n) ==
    IF n < 10 THEN <<DigitChars[n + 1]>>
    ELSE ToDecimal(n \div 10) \o <<DigitChars[(n % 10) + 1]>>

IsDigit(c) == \E d \in 1..10 : DigitChars[d] = c
DigitValue(c) == (CHOOSE d \in 1..10 : DigitChars[d] = c) - 1

RECURSIVE DigitsValue(_, _)
DigitsValue(s, acc) ==
    IF s = <<>> THEN acc ELSE DigitsValue(Tail(s), acc * 10 + DigitValue(Head(s)))

\* <u16 as FromStr>::from_str: an optional leading "+", then one or more
\* ASCII digits whose value fits 16 bits; anything else is an error.
ParseU16(s) ==
    LET digits == IF s # <<>> /\ Head(s) = "+" THEN Tail(s) ELSE s IN
    IF digits = <<>> \/ \E i \in 1..Len(digits) : ~IsDigit(digits[i])
    THEN None
    ELSE LET v == DigitsValue(digits, 0) IN IF v > U16Max THEN None ELSE Some(v)

\* str::split(":").collect::<Vec<_>>(): the pieces between the separators.
RECURSIVE SplitFrom(_, _, _)
SplitFrom(s, sep, cur) ==
    IF s = <<>> THEN <<cur>>
    ELSE IF Head(s) = sep THEN <<cur>> \o SplitFrom(Tail(s), sep, <<>>)
    ELSE SplitFrom(Tail(s), sep, Append(cur, Head(s)))
Split(s, sep) == SplitFrom(s, sep, <<>>)

SchemePrefix == <<"h","t","t","p","s",":","/","/">>

\* impl From<Endpoint> for String: format!("https://{}:{}", endpoint, port)
EndpointToString(e) == SchemePrefix \o e.endpoint \o <<":">> \o ToDecimal(e.port)

\* impl TryFrom<String> for Endpoint: Ok is [ok |-> TRUE, value |-> endpoint].
EndpointTryFrom(s) ==
    LET value == Split(s, ":") IN
    IF Len(value) # 2 THEN [ok |-> FALSE, value |-> None]
    ELSE LET p == ParseU16(value[2]) IN
         IF p = None THEN [ok |-> FALSE, value |-> None]
         ELSE [ok |-> TRUE, value |-> Some([endpoint |-> value[1], port |-> Unwrap(p)])]

\* The fields of Endpoint are private: a value is a preset or comes from
\* try_from, whose host is a piece between colons.
HostAlphabet == {"a", ".", "-"}
RECURSIVE StringsUpTo(_, _)
StringsUpTo(alphabet, n) ==
    IF n = 0 THEN {<<>>}
    ELSE LET shorter == StringsUpTo(alphabet, n - 1) IN
         shorter \cup {Append(s, c) : s \in shorter, c \in alphabet}

Presets == {development, development_alter, production, production_alter}
Ports == {0, 80, PortDefault, PortAlter, U16Max}
Endpoints ==
    Presets \cup
    {[endpoint |-> h, port |-> p] : h \in StringsUpTo(HostAlphabet, MaxHostLen), p \in Ports}

\* Strings handed directly to TryFrom<String>.
InputStrings ==
    { <<"a", ":", "4", "4", "3">>, <<"a", ":", "+", "5">>, <<"a", ":", "0", "0", "7">>,
      <<"a", ":", "6", "5", "5", "3", "6">>, <<"a", ":", "-", "1">>, <<"a", ":">>,
      <<"a">>, <<>>, <<":", "1">>, <<"a", ":", "b", ":", "1">>, <<"a", ":", "+">>,
      HostProduction \o <<":", "4", "4", "3">>, HostSandbox \o <<":", "2", "1", "9", "7">> }

(***************************************************************************)
(* JSON values as serde_json writes them                                   *)
(***************************************************************************)
JNum(n) == [t |-> "num", num |-> n]
JStr(s) == [t |-> "str", str |-> s]
JBool(b) == [t |-> "bool", bool |-> b]
JNull == [t |-> "null"]
JArr(items) == [t |-> "arr", arr |-> items]
JObj(pairs) == [t |-> "obj", obj |-> pairs]

IsObj(j) == j.t = "obj"
Keys(pairs) == [i \in 1..Len(pairs) |-> pairs[i][1]]
HasKey(pairs, k) == \E i \in 1..Len(pairs) : pairs[i][1] = k
Count(pairs, k) == Cardinality({i \in 1..Len(pairs) : pairs[i][1] = k})
Lookup(pairs, k) == pairs[CHOOSE i \in 1..Len(pairs) : pairs[i][1] = k][2]

\* One struct field under #[serde(skip_serializing_if = "Option::is_none")].
SkipIfNone(key, opt, ser(_)) == IF opt = None THEN <<>> ELSE <<<<key, ser(Unwrap(opt))>>>>

\* An f64: serde_json writes a finite value as a number, NaN and the
\* infinities as null.
F64(x) == [finite |-> TRUE, v |-> x]
NaN == [finite |-> FALSE, v |-> 0]
SerF64(x) == IF x.finite THEN JNum(x.v) ELSE JNull

SerStrings(xs) == JArr([i \in 1..Len(xs) |-> JStr(xs[i])])

(***************************************************************************)
(* Title, Subtitle, Body (types.rs:14-54)                                  *)
(***************************************************************************)
Normal(s) == [variant |-> "Normal", text |-> s, key |-> "", args |-> None]
Localized(k, a) == [variant |-> "Localized", text |-> "", key |-> k, args |-> a]

\* The entries an Option<Title> adds to the enclosing map under
\* #[serde(flatten)]: Normal is a newtype variant renamed "title", Localized
\* is an untagged struct variant.
SerTitle(opt) ==
    IF opt = None THEN <<>>
    ELSE LET x == Unwrap(opt) IN
         IF x.variant = "Normal" THEN <<<<"title", JStr(x.text)>>>>
         ELSE <<<<"title-loc-key", JStr(x.key)>>>> \o SkipIfNone("title-loc-args", x.args, SerStrings)

SerSubtitle(opt) ==
    IF opt = None THEN <<>>
    ELSE LET x == Unwrap(opt) IN
         IF x.variant = "Normal" THEN <<<<"subtitle", JStr(x.text)>>>>
         ELSE <<<<"subtitle-loc-key", JStr(x.key)>>>> \o SkipIfNone("subtitle-loc-args", x.args, SerStrings)

SerBody(opt) ==
    IF opt = None THEN <<>>
    ELSE LET x == Unwrap(opt) IN
         IF x.variant = "Normal" THEN <<<<"body", JStr(x.text)>>>>
         ELSE <<<<"loc-key", JStr(x.key)>>>> \o SkipIfNone("loc-args", x.args, SerStrings)

(***************************************************************************)
(* Alert (types.rs:56-71)                                                  *)
(***************************************************************************)
AlertBody(s) ==
    [variant |-> "Body", text |-> s, title |-> None, subtitle |-> None, body |-> None,
     launch_image |-> None]
AlertFull(t, s, b, l) ==
    [variant |-> "Full", text |-> "", title |-> t, subtitle |-> s, body |-> b,
     launch_image |-> l]

SerAlert(a) ==
    IF a.variant = "Body" THEN JStr(a.text)
    ELSE JObj(SerTitle(a.title) \o SerSubtitle(a.subtitle) \o SerBody(a.body)
              \o SkipIfNone("launch-image", a.launch_image, JStr))

(***************************************************************************)
(* Sound (types.rs:73-87)                                                  *)
(***************************************************************************)
SoundRegular(s) ==
    [variant |-> "Regular", text |-> s, critical |-> None, name |-> None, volume |-> None]
SoundCritical(c, n, v) ==
    [variant |-> "Critical", text |-> "", critical |-> c, name |-> n, volume |-> v]

\* serde_with's BoolFromInt as a serializer: serialize_u8(bool as u8).
BoolFromInt(b) == JNum(IF b THEN 1 ELSE 0)

SerSound(s) ==
    IF s.variant = "Regular" THEN JStr(s.text)
    ELSE JObj(SkipIfNone("critical", s.critical, BoolFromInt)
              \o SkipIfNone("name", s.name, JStr)
              \o SkipIfNone("volume", s.volume, SerF64))

(***************************************************************************)
(* InterruptionLevel (types.rs:89-96), rename_all = "kebab-case"           *)
(***************************************************************************)
InterruptionLevels == {"Passive", "Active", "TimeSensitive", "Critical"}
SerInterruptionLevel(l) ==
    JStr(CASE l = "Passive" -> "passive"
           [] l = "Active" -> "active"
           [] l = "TimeSensitive" -> "time-sensitive"
           [] l = "Critical" -> "critical")

(***************************************************************************)
(* Notification (types.rs:98-140)                                          *)
(***************************************************************************)
SerMap(m) == m

NotificationDefault ==
    [alert |-> None, badge |-> None, sound |-> None, thread_id |-> None,
     category |-> None, content_available |-> None, mutable_content |-> None,
     target_content_id |-> None, interruption_level |-> None,
     relevance_score |-> None, filter_criteria |-> None, stale_date |-> None,
     content_state |-> None, timestamp |-> None, event |-> None,
     dismissal_date |-> None, attributes_type |-> None, attributes |-> None]

NotificationFields ==
    <<"alert", "badge", "sound", "thread_id", "category", "content_available",
      "mutable_content", "target_content_id", "interruption_level",
      "relevance_score", "filter_criteria", "stale_date", "content_state",
      "timestamp", "event", "dismissal_date", "attributes_type", "attributes">>

\* A variant of the serializer that forgets skip_serializing_if on badge, so
\* that an unset badge is written as null.
SerNotificationNoSkip(n) ==
    JObj(SkipIfNone("alert", n.alert, SerAlert)
         \o (IF n.badge = None THEN <<<<"badge", JNull>>>>
             ELSE <<<<"badge", JNum(Unwrap(n.badge))>>>>)
         \o SkipIfNone("sound", n.sound, SerSound)
         \o SkipIfNone("thread-id", n.thread_id, JStr)
         \o SkipIfNone("category", n.category, JStr)
         \o SkipIfNone("content-available", n.content_available, BoolFromInt)
         \o SkipIfNone("mutable-content", n.mutable_content, BoolFromInt)
         \o SkipIfNone("target-content-id", n.target_content_id, JStr)
         \o SkipIfNone("interruption-level", n.interruption_level, SerInterruptionLevel)
         \o SkipIfNone("relevance-score", n.relevance_score, SerF64)
         \o SkipIfNone("filter-criteria", n.filter_criteria, JStr)
         \o SkipIfNone("stale-date", n.stale_date, JNum)
         \o SkipIfNone("content-state", n.content_state, SerMap)
         \o SkipIfNone("timestamp", n.timestamp, JNum)
         \o SkipIfNone("event", n.event, JStr)
         \o SkipIfNone("dismissal-date", n.dismissal_date, JNum)
         \o SkipIfNone("attributes-type", n.attributes_type, JStr)
         \o SkipIfNone("attributes", n.attributes, SerMap))

\* #[derive(Serialize)] with rename_all = "kebab-case": the fields in
\* declaration order, each skipped when it is None.
SerNotification(n) ==
    JObj(SkipIfNone("alert", n.alert, SerAlert)
         \o SkipIfNone("badge", n.badge, JNum)
         \o SkipIfNone("sound", n.sound, SerSound)
         \o SkipIfNone("thread-id", n.thread_id, JStr)
         \o SkipIfNone("category", n.category, JStr)
         \o SkipIfNone("content-available", n.content_available, BoolFromInt)
         \o SkipIfNone("mutable-content", n.mutable_content, BoolFromInt)
         \o SkipIfNone("target-content-id", n.target_content_id, JStr)
         \o SkipIfNone("interruption-level", n.interruption_level, SerInterruptionLevel)
         \o SkipIfNone("relevance-score", n.relevance_score, SerF64)
         \o SkipIfNone("filter-criteria", n.filter_criteria, JStr)
         \o SkipIfNone("stale-date", n.stale_date, JNum)
         \o SkipIfNone("content-state", n.content_state, SerMap)
         \o SkipIfNone("timestamp", n.timestamp, JNum)
         \o SkipIfNone("event", n.event, JStr)
         \o SkipIfNone("dismissal-date", n.dismissal_date, JNum)
         \o SkipIfNone("attributes-type", n.attributes_type, JStr)
         \o SkipIfNone("attributes", n.attributes, SerMap))

(***************************************************************************)
(* Payload (types.rs:162-179)                                              *)
(***************************************************************************)
PayloadDefault == [aps |-> NotificationDefault, custom |-> None]

\* A variant of the serializer that nests custom instead of flattening it.
SerPayloadNested(p) ==
    JObj(<<<<"aps", SerNotification(p.aps)>>>> \o SkipIfNone("custom", p.custom, SerMap))

\* #[derive(Serialize)]: aps, then the entries of custom flattened beside it.
SerPayload(p) ==
    JObj(<<<<"aps", SerNotification(p.aps)>>>>
         \o (IF p.custom = None THEN <<>> ELSE Unwrap(p.custom).obj))

(***************************************************************************)
(* StructWrapper -> Map<String, Value> (serialize.rs:22-35)                *)
(***************************************************************************)
\* What a caller hands to with_content_state / with_attributes /
\* with_custom, seen through serde_json::to_value: it serializes to a Value
\* (ser) or fails to.
Serializable(j) == [ser |-> TRUE, value |-> j]
Unserializable == [ser |-> FALSE, value |-> JNull]

TryIntoMap(x) ==
    IF ~x.ser THEN [ok |-> FALSE, map |-> JNull, error |-> "SerializationError"]
    ELSE IF IsObj(x.value) THEN [ok |-> TRUE, map |-> x.value, error |-> ""]
    ELSE [ok |-> FALSE, map |-> JNull, error |-> "NotAnObjectError"]

(***************************************************************************)
(* Building a Payload and serializing it                                   *)
(***************************************************************************)
OptOf(S) == {None} \cup {Some(x) : x \in S}

TitleValues == {Normal("Title"), Localized("KEY", None), Localized("KEY", Some(<<"arg">>))}
AlertValues ==
    {AlertBody("Body")} \cup
    {AlertFull(t, s, b, l) : t \in OptOf(TitleValues), s \in OptOf(TitleValues),
                             b \in OptOf(TitleValues), l \in OptOf({"img"})}
SoundValues ==
    {SoundRegular("default")} \cup
    {SoundCritical(c, n, v) : c \in OptOf(BOOLEAN), n \in OptOf({"name"}),
                              v \in OptOf({F64(1), NaN})}

\* The values a caller assigns to the public fields of Notification.
FieldValues(f) ==
    CASE f = "alert" -> AlertValues
      [] f = "sound" -> SoundValues
      [] f \in {"content_available", "mutable_content"} -> BOOLEAN
      [] f = "interruption_level" -> InterruptionLevels
      [] f = "relevance_score" -> {F64(1), NaN}
      [] f \in {"badge", "stale_date", "timestamp", "dismissal_date"} -> {7}
      [] f \in {"content_state", "attributes"} -> {}
      [] OTHER -> {"text"}

NonObjects == {JStr("s"), JArr(<<>>), JNum(1)}
StateObjects == {JObj(<<<<"attr", JStr("foo")>>>>)}
CustomObjects ==
    { JObj(<<>>),
      JObj(<<<<"payload", JStr("payload")>>>>),
      JObj(<<<<"k", JNum(1)>>, <<"payload", JStr("payload")>>>>),
      JObj(<<<<"aps", JStr("x")>>, <<"k", JNum(1)>>>>) }
Inputs(objects) == {Serializable(j) : j \in objects \cup NonObjects} \cup {Unserializable}

FieldIsSet(n, f) == n[f] # None
NumSet(p) ==
    Cardinality({i \in 1..Len(NotificationFields) : FieldIsSet(p.aps, NotificationFields[i])})
    + (IF p.custom = None THEN 0 ELSE 1)

\* The payload exists, is not serialized yet, and has room for another field.
Building == wire = None /\ payload # None /\ NumSet(Unwrap(payload)) < MaxSet

\* Notification { f: Some(v), ..n }
SetField(f, v) ==
    /\ wire = None /\ payload # None
    /\ ~FieldIsSet(Unwrap(payload).aps, f)
    /\ Building
    /\ payload' = Some([Unwrap(payload) EXCEPT !.aps[f] = Some(v)])
    /\ UNCHANGED <<buildError, wire>>

BuildFailed(r) ==
    /\ payload' = None
    /\ buildError' = Some([kind |-> "ConvertJsonObjectError", source |-> r.error])

\* Notification::with_content_state
with_content_state(state) ==
    /\ Building
    /\ ~FieldIsSet(Unwrap(payload).aps, "content_state")
    /\ LET r == TryIntoMap(state) IN
       IF r.ok
       THEN /\ payload' = Some([Unwrap(payload) EXCEPT !.aps.content_state = Some(r.map)])
            /\ UNCHANGED buildError
       ELSE BuildFailed(r)
    /\ UNCHANGED wire

\* Notification::with_attributes
with_attributes(attributes) ==
    /\ Building
    /\ ~FieldIsSet(Unwrap(payload).aps, "attributes")
    /\ LET r == TryIntoMap(attributes) IN
       IF r.ok
       THEN /\ payload' = Some([Unwrap(payload) EXCEPT !.aps.attributes = Some(r.map)])
            /\ UNCHANGED buildError
       ELSE BuildFailed(r)
    /\ UNCHANGED wire

\* Payload::with_custom
with_custom(custom) ==
    /\ Building
    /\ Unwrap(payload).custom = None
    /\ LET r == TryIntoMap(custom) IN
       IF r.ok
       THEN /\ payload' = Some([Unwrap(payload) EXCEPT !.custom = Some(r.map)])
            /\ UNCHANGED buildError
       ELSE BuildFailed(r)
    /\ UNCHANGED wire

\* serde_json::to_string(&payload)
Serialize ==
    /\ payload # None
    /\ wire = None
    /\ wire' = Some(SerPayload(Unwrap(payload)))
    /\ UNCHANGED <<payload, buildError>>

InitPayload == payload = Some(PayloadDefault) /\ buildError = None /\ wire = None

(***************************************************************************)
(* APNClient::sign (client.rs:111-137)                                     *)
(***************************************************************************)
TokenLifetime == 60 * 20

\* EncodingKey::from_ec_pem accepts any EC private key; encode with
\* Algorithm::ES256 succeeds only with a P-256 key.
KeyKinds == {"P-256", "P-384"}
EncodeSucceeds(key) == key = "P-256"

\* The token encode returns: the header's kid, the claims iss and iat, and
\* an ECDSA signature, which differs from one invocation to the next.
Token(cfg, t, nonce) == [kid |-> cfg.key_id, iss |-> cfg.team_id, iat |-> t, sig |-> nonce]

SignResult(kind, value, self, invoked) ==
    [kind |-> kind, value |-> value, token |-> self.token,
     signed_time |-> self.signed_time, invoked |-> invoked]

\* A variant of sign that compares with <= instead of <.
signInclusive(self, t, nonce) ==
    IF self.token # None /\ t < self.signed_time
    THEN SignResult("SystemTimeError", None, self, FALSE)
    ELSE IF self.token # None /\ t - self.signed_time <= TokenLifetime
    THEN SignResult("Ok", self.token, self, FALSE)
    ELSE IF t < 0
    THEN SignResult("SystemTimeError", None, self, FALSE)
    ELSE IF ~EncodeSucceeds(self.config.key)
    THEN SignResult("SignError", None, self, TRUE)
    ELSE LET tok == Token(self.config, t, nonce) IN
         SignResult("Ok", Some(tok), [self EXCEPT !.token = Some(tok)], TRUE)

\* sign(&mut self) at clock reading t: the Result it returns (kind, value),
\* the fields of self afterwards, and whether encode was invoked.  nonce
\* names the signature a successful encode produces.
sign(self, t, nonce) ==
    IF self.token # None /\ t < self.signed_time
    THEN SignResult("SystemTimeError", None, self, FALSE)
    ELSE IF self.token # None /\ t - self.signed_time < TokenLifetime
    THEN SignResult("Ok", self.token, self, FALSE)
    ELSE IF t < 0
    THEN SignResult("SystemTimeError", None, self, FALSE)
    ELSE IF ~EncodeSucceeds(self.config.key)
    THEN SignResult("SignError", None, self, TRUE)
    ELSE LET tok == Token(self.config, t, nonce) IN
         SignResult("Ok", Some(tok), [self EXCEPT !.token = Some(tok)], TRUE)

(***************************************************************************)
(* PushOption -> HeaderMap (types.rs:243-282)                              *)
(***************************************************************************)
\* str::parse::<HeaderValue>() (HeaderValue::from_str): every byte is 32 or
\* above and not 127 (DEL), or is a tab.  Bytes from 128 up, the UTF-8
\* encoding of non-ASCII text, are accepted.
ValidHeaderValue(bytes) ==
    \A i \in 1..Len(bytes) : (bytes[i] >= 32 /\ bytes[i] # 127) \/ bytes[i] = 9

\* The bytes of n.to_string().
RECURSIVE DecimalBytes(_)
DecimalBytes(n) ==
    IF n < 10 THEN <<48 + n>> ELSE DecimalBytes(n \div 10) \o <<48 + (n % 10)>>

HeaderOk(entries) == [ok |-> TRUE, entries |-> entries]
HeaderErr == [ok |-> FALSE, entries |-> <<>>]

\* if let Some(v) = field { headers.insert(name, v.parse().map_err(|_| ())?) }
InsertOpt(acc, name, opt) ==
    IF ~acc.ok \/ opt = None THEN acc
    ELSE IF ValidHeaderValue(Unwrap(opt)) THEN HeaderOk(Append(acc.entries, <<name, Unwrap(opt)>>))
    ELSE HeaderErr

InsertNum(acc, name, opt) ==
    IF opt = None THEN acc ELSE InsertOpt(acc, name, Some(DecimalBytes(Unwrap(opt))))

\* impl TryFrom<PushOption<'_>> for HeaderMap
TryIntoHeaders(value) ==
    InsertOpt(
      InsertOpt(
        InsertNum(
          InsertNum(
            InsertOpt(
              InsertOpt(HeaderOk(<<>>), "apns-push-type", value.push_type),
              "apns-id", value.id),
            "apns-expiration", value.expiration),
          "apns-priority", value.priority),
        "apns-collapse-id", value.collapse_id),
      "apns-topic", Some(value.topic))

\* "a", "a\n" and "\u{e9}" (e acute, two bytes of UTF-8) as bytes.
GoodText == <<97>>
BadText == <<97, 10>>
HighText == <<195, 169>>

PushOptionDefault ==
    [push_type |-> None, id |-> None, expiration |-> None, priority |-> None,
     topic |-> GoodText, collapse_id |-> None]
PushOptionFull ==
    [push_type |-> Some(GoodText), id |-> Some(GoodText), expiration |-> Some(0),
     priority |-> Some(10), topic |-> GoodText, collapse_id |-> Some(GoodText)]
TextFields == {"push_type", "id", "collapse_id"}
PushOptions ==
    {PushOptionDefault, PushOptionFull, [PushOptionFull EXCEPT !.topic = BadText],
     [PushOptionDefault EXCEPT !.topic = BadText]}
    \cup {[PushOptionFull EXCEPT ![f] = Some(BadText)] : f \in TextFields}
    \cup {[PushOptionDefault EXCEPT ![f] = Some(BadText)] : f \in TextFields}
    \cup {[PushOptionDefault EXCEPT !.topic = HighText],
          [PushOptionFull EXCEPT !.collapse_id = Some(HighText)]}

\* Every text value of the option is valid header content.
OptionValid(o) ==
    /\ ValidHeaderValue(o.topic)
    /\ \A f \in TextFields : o[f] # None => ValidHeaderValue(Unwrap(o[f]))

(***************************************************************************)
(* APNClient::push (client.rs:139-182)                                     *)
(***************************************************************************)
DevicePath == <<"/","3","/","d","e","v","i","c","e","/">>

PushResult(kind, resp, status, error) ==
    [kind |-> kind, response |-> resp, status |-> status, error |-> error]
Failure(kind) == PushResult(kind, None, 0, None)

\* A variant of the first half of push that submits the request with the
\* headers it could build, whatever try_into returned.
PrepareIgnoringHeaderError(self, t, p, device_token, option, nonce) ==
    LET path == self.config.endpoint \o DevicePath \o device_token
        signed == sign(self, t, nonce)
        headers == TryIntoHeaders(option)
    IN  [signed |-> signed,
         error |-> IF signed.kind # "Ok" THEN Some(signed.kind) ELSE None,
         request |-> IF signed.kind # "Ok" THEN None
                     ELSE Some([path |-> path, bearer |-> Unwrap(signed.value),
                                headers |-> headers.entries, body |-> SerPayload(p)])]

\* push up to req.send() (client.rs:145-153): the path, the token from sign,
\* the headers from the option and the JSON body.  The outcome of sign, the
\* error push returns at this point if any, and otherwise the request.
Prepare(self, t, p, device_token, option, nonce) ==
    LET path == self.config.endpoint \o DevicePath \o device_token
        signed == sign(self, t, nonce)
        headers == TryIntoHeaders(option)
    IN  [signed |-> signed,
         error |-> IF signed.kind # "Ok" THEN Some(signed.kind)
                   ELSE IF ~headers.ok THEN Some("HeaderError")
                   ELSE None,
         request |-> IF signed.kind # "Ok" \/ ~headers.ok THEN None
                     ELSE Some([path |-> path, bearer |-> Unwrap(signed.value),
                                headers |-> headers.entries, body |-> SerPayload(p)])]

\* HeaderValue::to_str: every byte is visible ASCII or a tab.
ToStr(bytes) ==
    IF \A i \in 1..Len(bytes) : (bytes[i] >= 32 /\ bytes[i] < 127) \/ bytes[i] = 9
    THEN Some(bytes) ELSE None

IsU64OrNull(j) == j.t = "null" \/ (j.t = "num" /\ j.num >= 0)
OptU64(j) == IF j.t = "num" THEN Some(j.num) ELSE None

\* res.json::<APNErrorResponse>() (client.rs:49-53): the derived
\* Deserialize reads a map with exactly one string "reason" and at most one
\* "timestamp" (an unsigned number or null), ignoring other keys, or a
\* two-element sequence.  body is None when it is not JSON at all.
DecodeErrorResponse(body) ==
    IF body = None THEN None
    ELSE LET j == Unwrap(body) IN
         IF j.t = "obj"
         THEN IF /\ Count(j.obj, "reason") = 1
                 /\ Lookup(j.obj, "reason").t = "str"
                 /\ Count(j.obj, "timestamp") <= 1
                 /\ (HasKey(j.obj, "timestamp") => IsU64OrNull(Lookup(j.obj, "timestamp")))
              THEN Some([reason |-> Lookup(j.obj, "reason").str,
                         timestamp |-> IF HasKey(j.obj, "timestamp")
                                       THEN OptU64(Lookup(j.obj, "timestamp")) ELSE None])
              ELSE None
         ELSE IF j.t = "arr"
         THEN IF Len(j.arr) = 2 /\ j.arr[1].t = "str" /\ IsU64OrNull(j.arr[2])
              THEN Some([reason |-> j.arr[1].str, timestamp |-> OptU64(j.arr[2])])
              ELSE None
         ELSE None

\* What the first part of the response handling leaves: push has returned
\* result, or it goes on to read the body with apn_response in hand.
Return(r) == [done |-> TRUE, result |-> Some(r), apn_response |-> None]
AwaitBody(apn_response) ==
    [done |-> FALSE, result |-> None, apn_response |-> Some(apn_response)]

\* A variant of ReadResponse that looks at the status first and reads the
\* headers only of a 200.
ReadResponseStatusFirst(res) ==
    IF res.status = 200
    THEN IF res.apns_id = None THEN Return(Failure("InvalidResponseError"))
         ELSE IF ToStr(Unwrap(res.apns_id)) = None THEN Return(Failure("ToStrError"))
         ELSE Return(PushResult("Ok", Some([id |-> Unwrap(res.apns_id), unique_id |-> None]),
                                0, None))
    ELSE AwaitBody([id |-> <<>>, unique_id |-> None])

\* A variant of ReadResponse that treats every 2xx status as success.
ReadResponseAny2xx(res) ==
    IF res.apns_id = None THEN Return(Failure("InvalidResponseError"))
    ELSE IF ToStr(Unwrap(res.apns_id)) = None THEN Return(Failure("ToStrError"))
    ELSE IF res.apns_unique_id # None /\ ToStr(Unwrap(res.apns_unique_id)) = None
    THEN Return(Failure("ToStrError"))
    ELSE LET apn_response == [id |-> Unwrap(res.apns_id), unique_id |-> res.apns_unique_id]
         IN  IF res.status \div 100 = 2
             THEN Return(PushResult("Ok", Some(apn_response), 0, None))
             ELSE AwaitBody(apn_response)

\* push between the two awaits (client.rs:154-170): the apns-id and
\* apns-unique-id headers of the response, then its status.
ReadResponse(res) ==
    IF res.apns_id = None THEN Return(Failure("InvalidResponseError"))
    ELSE IF ToStr(Unwrap(res.apns_id)) = None THEN Return(Failure("ToStrError"))
    ELSE IF res.apns_unique_id # None /\ ToStr(Unwrap(res.apns_unique_id)) = None
    THEN Return(Failure("ToStrError"))
    ELSE LET apn_response == [id |-> Unwrap(res.apns_id), unique_id |-> res.apns_unique_id]
         IN  IF res.status = 200
             THEN Return(PushResult("Ok", Some(apn_response), 0, None))
             ELSE AwaitBody(apn_response)

\* push after res.json().await (client.rs:171-181).  arrived is FALSE when
\* reading the body failed; every error of res.json() is mapped to
\* InvalidResponseError.
ReadErrorBody(status, apn_response, body, arrived) ==
    LET error_response == IF arrived THEN DecodeErrorResponse(body) ELSE None IN
    IF error_response = None THEN Failure("InvalidResponseError")
    ELSE PushResult("APNError", Some(apn_response), status, error_response)

\* What req.send().await yields: a transport error, or a response with its
\* status, its two headers and the body the server sends.  body_read is
\* None until res.json().await completes, then whether the body arrived.
SendFailed == [received |-> FALSE, status |-> 0, apns_id |-> None, apns_unique_id |-> None,
               body |-> None, body_read |-> None]
Received(status, id, unique, body) ==
    [received |-> TRUE, status |-> status, apns_id |-> id, apns_unique_id |-> unique,
     body |-> body, body_read |-> None]

\* "X", "U", and a byte that is no text.
IdValues == {None, Some(<<88>>), Some(<<255>>)}
UniqueValues == {None, Some(<<85>>), Some(<<255>>)}
Statuses == {200, 201, 400}
Bodies ==
    { None,
      Some(JObj(<<<<"reason", JStr("BadDeviceToken")>>>>)),
      Some(JObj(<<<<"reason", JStr("Unregistered")>>, <<"timestamp", JNum(1)>>>>)),
      Some(JObj(<<<<"error", JStr("x")>>>>)) }
SendOutcomes ==
    {SendFailed} \cup
    {Received(st, i, u, b) : st \in Statuses, i \in IdValues, u \in UniqueValues, b \in Bodies}

Device == <<"d">>
Self == [config |-> config, token |-> token, signed_time |-> signed_time]

\* push, from the call to the await of req.send() or to an early return.
Push(p, device_token, option) ==
    /\ pc = "idle"
    /\ calls < MaxPushes
    /\ LET r == Prepare(Self, now, p, device_token, option, signs + 1) IN
       /\ token' = r.signed.token
       /\ signed_time' = r.signed.signed_time
       /\ signs' = IF r.signed.invoked THEN signs + 1 ELSE signs
       /\ signOutcome' = Some(r.signed.kind)
       /\ IF r.signed.kind = "Ok"
          THEN /\ lastSign' = Some([tok |-> Unwrap(r.signed.value), at |-> now,
                                    fresh |-> r.signed.invoked])
               /\ prevSign' = lastSign
          ELSE UNCHANGED <<lastSign, prevSign>>
       /\ request' = r.request
       /\ sent' = IF r.request = None THEN sent ELSE sent + 1
       /\ pc' = IF r.request = None THEN "idle" ELSE "sending"
       /\ result' = IF r.error = None THEN None ELSE Some(Failure(Unwrap(r.error)))
    /\ calls' = calls + 1
    /\ lastOpt' = Some(option)
    /\ response' = None
    /\ UNCHANGED <<config, now, ticks, monotone>>

\* req.send().await completes (client.rs:153): push returns HTTPError, or
\* reads the headers and the status and returns, or goes on to await the
\* body (client.rs:154-171).
Respond(outcome) ==
    /\ pc = "sending"
    /\ response' = Some(outcome)
    /\ IF ~outcome.received
       THEN /\ result' = Some(Failure("HTTPError"))
            /\ pc' = "idle"
       ELSE LET r == ReadResponse(outcome) IN
            /\ result' = r.result
            /\ pc' = IF r.done THEN "idle" ELSE "reading"
    /\ UNCHANGED <<config, now, token, signed_time, request, lastOpt, lastSign, prevSign,
                   signOutcome, signs, calls, sent, ticks, monotone>>

\* res.json().await completes (client.rs:171-174) and push returns
\* (client.rs:175-181).  apn_response, a local built before the await, is
\* read back from the headers of the response.
RespondBody(arrived) ==
    /\ pc = "reading"
    /\ pc' = "idle"
    /\ response' = Some([Unwrap(response) EXCEPT !.body_read = Some(arrived)])
    /\ LET res == Unwrap(response) IN
       result' = Some(ReadErrorBody(res.status, Unwrap(ReadResponse(res).apn_response),
                                    res.body, arrived))
    /\ UNCHANGED <<config, now, token, signed_time, request, lastOpt, lastSign, prevSign,
                   signOutcome, signs, calls, sent, ticks, monotone>>

\* The caller drops the future of push at one of its two awaits
\* (client.rs:153 and client.rs:171-174): push returns nothing, and what
\* sign did to the client stays.
Drop ==
    /\ pc \in {"sending", "reading"}
    /\ pc' = "idle"
    /\ UNCHANGED <<config, now, token, signed_time, request, response, result, lastOpt,
                   lastSign, prevSign, signOutcome, signs, calls, sent, ticks, monotone>>

\* Time passes.
TickSteps == {1, TokenLifetime - 1, TokenLifetime}
Tick(d) ==
    /\ ticks < MaxTicks
    /\ now' = now + d
    /\ ticks' = ticks + 1
    /\ UNCHANGED <<config, token, signed_time, pc, request, response, result, lastOpt,
                   lastSign, prevSign, signOutcome, signs, calls, sent, monotone>>

\* The system clock is set back, to the epoch or before it.
BackTimes == {-1, 0}
ClockBack(t) ==
    /\ t < now
    /\ now' = t
    /\ monotone' = FALSE
    /\ UNCHANGED <<config, token, signed_time, pc, request, response, result, lastOpt,
                   lastSign, prevSign, signOutcome, signs, calls, sent, ticks>>

Config(key) ==
    [team_id |-> "TEAM", key_id |-> "KEY", key |-> key,
     endpoint |-> EndpointToString(EndpointDefault)]

\* APNClientConfig::new and APNClient::new at clock reading StartTime.
InitClient(keys) ==
    /\ config \in {Config(k) : k \in keys}
    /\ now = StartTime
    /\ token = None
    /\ signed_time = StartTime
    /\ pc = "idle"
    /\ request = None /\ response = None /\ result = None /\ lastOpt = None
    /\ lastSign = None /\ prevSign = None /\ signOutcome = None
    /\ signs = 0 /\ calls = 0 /\ sent = 0 /\ ticks = 0
    /\ monotone = TRUE

(***************************************************************************)
(* Endpoint conversions as steps                                           *)
(***************************************************************************)
\* String::from(endpoint)
IntoString ==
    /\ endpoint # None
    /\ epString = None
    /\ epString' = Some(EndpointToString(Unwrap(endpoint)))
    /\ UNCHANGED <<endpoint, epParsed>>

\* Endpoint::try_from(string)
TryFromString ==
    /\ epString # None
    /\ epParsed = None
    /\ epParsed' = Some(EndpointTryFrom(Unwrap(epString)))
    /\ UNCHANGED <<endpoint, epString>>

InitEndpoint == endpoint = Some(EndpointDefault) /\ epString = None /\ epParsed = None
InitEndpoints ==
    /\ epParsed = None
    /\ \/ endpoint \in {Some(e) : e \in Endpoints} /\ epString = None
       \/ endpoint = None /\ epString \in {Some(x) : x \in InputStrings}

(***************************************************************************)
(* Specifications                                                          *)
(***************************************************************************)
Init == InitClient(KeyKinds) /\ InitPayload /\ InitEndpoint

\* The token cache over time: pushes, clock steps and clock resets.
LifecycleOptions == {PushOptionFull, [PushOptionDefault EXCEPT !.topic = BadText]}
LifecycleOutcomes ==
    {SendFailed, Received(200, Some(<<88>>), None, None),
     Received(400, Some(<<88>>), None, Some(JObj(<<<<"reason", JStr("BadDeviceToken")>>>>)))}
Next ==
    \/ \E d \in TickSteps : Tick(d) /\ UNCHANGED <<payloadVars, endpointVars>>
    \/ \E t \in BackTimes : ClockBack(t) /\ UNCHANGED <<payloadVars, endpointVars>>
    \/ \E o \in LifecycleOptions :
          Push(PayloadDefault, Device, o) /\ UNCHANGED <<payloadVars, endpointVars>>
    \/ \E r \in LifecycleOutcomes : Respond(r) /\ UNCHANGED <<payloadVars, endpointVars>>
    \/ \E a \in BOOLEAN : RespondBody(a) /\ UNCHANGED <<payloadVars, endpointVars>>
    \/ Drop /\ UNCHANGED <<payloadVars, endpointVars>>
Spec == Init /\ [][Next]_vars

\* The push protocol: every option and every answer of the transport.
PushPayloads ==
    {PayloadDefault,
     [PayloadDefault EXCEPT !.custom = Some(JObj(<<<<"payload", JStr("payload")>>>>))]}
NextPush ==
    \/ \E p \in PushPayloads, o \in PushOptions :
          Push(p, Device, o) /\ UNCHANGED <<payloadVars, endpointVars>>
    \/ \E r \in SendOutcomes : Respond(r) /\ UNCHANGED <<payloadVars, endpointVars>>
    \/ \E a \in BOOLEAN : RespondBody(a) /\ UNCHANGED <<payloadVars, endpointVars>>
    \/ Drop /\ UNCHANGED <<payloadVars, endpointVars>>
SpecPush == Init /\ [][NextPush]_vars

\* Building a payload field by field and serializing it.
SettableFields ==
    {NotificationFields[i] : i \in 1..Len(NotificationFields)} \ {"content_state", "attributes"}
NextPayload ==
    \/ \E f \in SettableFields : \E v \in FieldValues(f) :
          SetField(f, v) /\ UNCHANGED <<clientVars, endpointVars>>
    \/ \E x \in Inputs(StateObjects) :
          with_content_state(x) /\ UNCHANGED <<clientVars, endpointVars>>
    \/ \E x \in Inputs(StateObjects) :
          with_attributes(x) /\ UNCHANGED <<clientVars, endpointVars>>
    \/ \E x \in Inputs(CustomObjects) :
          with_custom(x) /\ UNCHANGED <<clientVars, endpointVars>>
    \/ Serialize /\ UNCHANGED <<clientVars, endpointVars>>
InitBuild == InitClient({"P-256"}) /\ InitPayload /\ InitEndpoint
SpecPayload == InitBuild /\ [][NextPayload]_vars

\* Endpoint to String and String to Endpoint.
NextEndpoint ==
    \/ IntoString /\ UNCHANGED <<clientVars, payloadVars>>
    \/ TryFromString /\ UNCHANGED <<clientVars, payloadVars>>
InitConversions == InitClient({"P-256"}) /\ InitPayload /\ InitEndpoints
SpecEndpoint == InitConversions /\ [][NextEndpoint]_vars

(***************************************************************************)
(* Properties                                                              *)
(***************************************************************************)
SignAge(s) == s.at - s.tok.iat

\* C1: of two successful signs on a client, the second less than 20 minutes
\* after the first, the second returns the same token as the first and does
\* not invoke the signing primitive, however long after construction the
\* first one happened.
C1_SecondSignWithinLifetimeIsCached ==
    (/\ prevSign # None /\ lastSign # None /\ monotone
     /\ Unwrap(lastSign).at - Unwrap(prevSign).at < TokenLifetime)
    => (/\ Unwrap(lastSign).tok = Unwrap(prevSign).tok
        /\ ~Unwrap(lastSign).fresh)

\* C2: whenever a token is cached, the stored timestamp signed_time is the
\* time at which that token was signed (a miss replaces token and timestamp
\* as a pair).
C2_TimestampIsSigningTime ==
    token # None => signed_time = Unwrap(token).iat

\* C10: with a clock that never went back, every token a successful sign
\* returns, and so every bearer token submitted, was signed less than 20
\* minutes before that moment.
C10_ReturnedTokenYoungerThanLifetime ==
    monotone =>
        /\ lastSign # None =>
              /\ SignAge(Unwrap(lastSign)) >= 0
              /\ SignAge(Unwrap(lastSign)) < TokenLifetime
        /\ (request # None /\ lastSign # None) =>
              Unwrap(request).bearer = Unwrap(lastSign).tok

\* C10 witness: a cache hit that returns a token signed 19 minutes and 59
\* seconds earlier.
C10_Witness ==
    /\ monotone /\ lastSign # None
    /\ ~Unwrap(lastSign).fresh
    /\ SignAge(Unwrap(lastSign)) = TokenLifetime - 1
    /\ request # None

ApsOf(w) == w.obj[1][2]

FlagOneOrAbsent(obj, key, flag) ==
    /\ flag = None => ~HasKey(obj, key)
    /\ flag = Some(TRUE) => (Count(obj, key) = 1 /\ Lookup(obj, key) = JNum(1))
    /\ flag = Some(FALSE) => ~HasKey(obj, key)
    /\ \A i \in 1..Len(obj) : obj[i][1] = key => obj[i][2] = JNum(1)

\* C3: content-available, mutable-content and the sound's critical flag are
\* written as the integer 1 for Some(true) and not written for None and for
\* Some(false); no written flag has another value.
C3_FlagsAreOneOrAbsent ==
    wire # None =>
        LET n == Unwrap(payload).aps
            aps == ApsOf(Unwrap(wire)).obj
        IN  /\ FlagOneOrAbsent(aps, "content-available", n.content_available)
            /\ FlagOneOrAbsent(aps, "mutable-content", n.mutable_content)
            /\ (n.sound # None /\ Unwrap(n.sound).variant = "Critical") =>
                   FlagOneOrAbsent(Lookup(aps, "sound").obj, "critical",
                                   Unwrap(n.sound).critical)

\* The key each field of Notification is written under.
NotificationKeys ==
    <<"alert", "badge", "sound", "thread-id", "category", "content-available",
      "mutable-content", "target-content-id", "interruption-level",
      "relevance-score", "filter-criteria", "stale-date", "content-state",
      "timestamp", "event", "dismissal-date", "attributes-type", "attributes">>

IsVariant(opt, variant) == opt # None /\ Unwrap(opt).variant = variant
HasArgs(opt) == IsVariant(opt, "Localized") /\ Unwrap(opt).args # None

\* The value behind a key of a Full alert is set.
AlertKeySet(a, k) ==
    CASE k = "title" -> IsVariant(a.title, "Normal")
      [] k = "title-loc-key" -> IsVariant(a.title, "Localized")
      [] k = "title-loc-args" -> HasArgs(a.title)
      [] k = "subtitle" -> IsVariant(a.subtitle, "Normal")
      [] k = "subtitle-loc-key" -> IsVariant(a.subtitle, "Localized")
      [] k = "subtitle-loc-args" -> HasArgs(a.subtitle)
      [] k = "body" -> IsVariant(a.body, "Normal")
      [] k = "loc-key" -> IsVariant(a.body, "Localized")
      [] k = "loc-args" -> HasArgs(a.body)
      [] k = "launch-image" -> a.launch_image # None
      [] OTHER -> FALSE

\* The value behind a key of a structured sound is set.
SoundKeySet(s, k) ==
    CASE k = "critical" -> s.critical # None
      [] k = "name" -> s.name # None
      [] k = "volume" -> s.volume # None
      [] OTHER -> FALSE

\* C7: the serialized notification has a field only if the corresponding
\* optional value is set, at the level of the block, inside a Full alert
\* (title, subtitle, body in either form, launch-image) and inside a
\* structured sound; the notification with nothing set is written as {}.
C7_FieldsOnlyIfSet ==
    wire # None =>
        LET n == Unwrap(payload).aps
            aps == ApsOf(Unwrap(wire))
        IN  /\ IsObj(aps)
            /\ \A i \in 1..Len(aps.obj) :
                  \E j \in 1..Len(NotificationFields) :
                      /\ NotificationKeys[j] = aps.obj[i][1]
                      /\ FieldIsSet(n, NotificationFields[j])
            /\ IsVariant(n.alert, "Full") =>
                  LET a == Lookup(aps.obj, "alert") IN
                  /\ IsObj(a)
                  /\ \A i \in 1..Len(a.obj) : AlertKeySet(Unwrap(n.alert), a.obj[i][1])
            /\ IsVariant(n.sound, "Critical") =>
                  LET sd == Lookup(aps.obj, "sound") IN
                  /\ IsObj(sd)
                  /\ \A i \in 1..Len(sd.obj) : SoundKeySet(Unwrap(n.sound), sd.obj[i][1])
            /\ n = NotificationDefault => aps = JObj(<<>>)

\* C7 witness: a serialized notification whose Full alert has a localized
\* title without args and nothing else, beside a structured sound with only
\* a name.
C7_Witness ==
    /\ wire # None
    /\ Unwrap(payload).aps.alert = Some(AlertFull(Some(Localized("KEY", None)), None, None, None))
    /\ Unwrap(payload).aps.sound = Some(SoundCritical(None, Some("name"), None))
    /\ Unwrap(payload).aps.badge = None
    /\ Len(ApsOf(Unwrap(wire)).obj) = 2

SeqToSet(q) == {q[i] : i \in 1..Len(q)}

\* C8: when custom has no key aps, the payload is written as one flat
\* object whose keys are aps and the keys of custom, each once: aps holds
\* the notification block ({} when it is empty) and every custom field is a
\* sibling with its value unchanged; without custom the only key is aps.
C8_PayloadIsFlat ==
    (wire # None /\ (Unwrap(payload).custom # None
                       => ~HasKey(Unwrap(Unwrap(payload).custom).obj, "aps")))
    => LET p == Unwrap(payload)
           w == Unwrap(wire).obj
           custom == IF p.custom = None THEN <<>> ELSE Unwrap(p.custom).obj
       IN  /\ SeqToSet(Keys(w)) = {"aps"} \cup SeqToSet(Keys(custom))
           /\ Len(w) = 1 + Len(custom)
           /\ IsObj(Lookup(w, "aps"))
           /\ p.aps = NotificationDefault => Lookup(w, "aps") = JObj(<<>>)
           /\ \A i \in 1..Len(custom) : Lookup(w, custom[i][1]) = custom[i][2]
           /\ p.custom = None => Keys(w) = <<"aps">>

\* C8 witness: {"aps":{},"payload":"payload"}.
C8_Witness ==
    /\ wire # None
    /\ Unwrap(payload).aps = NotificationDefault
    /\ Unwrap(payload).custom = Some(JObj(<<<<"payload", JStr("payload")>>>>))
    /\ Unwrap(wire) = JObj(<<<<"aps", JObj(<<>>)>>, <<"payload", JStr("payload")>>>>)

\* C9: an Endpoint converted to its String and back by TryFrom<String>
\* comes back Ok with the same host and port.
C9_EndpointRoundTrips ==
    (endpoint # None /\ epParsed # None)
    => (Unwrap(epParsed).ok /\ Unwrap(epParsed).value = endpoint)

\* push returned after a response came in.
Answered == response # None /\ Unwrap(response).received /\ result # None
TextOrAbsent(h) == h = None \/ ToStr(Unwrap(h)) # None
\* Reading the body of the response did not fail.
BodyIntact == Unwrap(response).body_read # Some(FALSE)

\* C4 as stated: every response with a status other than 200 and a body
\* that decodes as an error object makes push return the service error with
\* that status and reason.
C4_Non200DecodableIsServiceError ==
    (/\ Answered
     /\ Unwrap(response).status # 200
     /\ BodyIntact
     /\ DecodeErrorResponse(Unwrap(response).body) # None)
    => (/\ Unwrap(result).kind = "APNError"
        /\ Unwrap(result).status = Unwrap(response).status
        /\ Unwrap(result).error = DecodeErrorResponse(Unwrap(response).body))

\* C4 amended: the same for every such response that carries an apns-id
\* header and whose apns-id and apns-unique-id values are text; push reads
\* the body of exactly these, and the error also carries the receipt fields
\* read from the headers.
C4_Non200DecodableWithIdIsServiceError ==
    /\ (/\ Answered
        /\ Unwrap(response).status # 200
        /\ BodyIntact
        /\ DecodeErrorResponse(Unwrap(response).body) # None
        /\ Unwrap(response).apns_id # None
        /\ TextOrAbsent(Unwrap(response).apns_id)
        /\ TextOrAbsent(Unwrap(response).apns_unique_id))
       => (/\ Unwrap(result).kind = "APNError"
           /\ Unwrap(result).status = Unwrap(response).status
           /\ Unwrap(result).error = DecodeErrorResponse(Unwrap(response).body)
           /\ Unwrap(response).body_read = Some(TRUE)
           /\ Unwrap(result).response =
                 Some([id |-> Unwrap(Unwrap(response).apns_id),
                       unique_id |-> Unwrap(response).apns_unique_id]))
    /\ (result # None /\ Unwrap(result).kind = "APNError")
       => (/\ Answered
           /\ Unwrap(response).status # 200
           /\ Unwrap(response).body_read = Some(TRUE))

\* C4 witness: status 400 with body {"reason":"BadDeviceToken"} and an
\* apns-id, its body read, returned as the service error 400 /
\* BadDeviceToken.
C4_Witness ==
    /\ Answered
    /\ pc = "idle"
    /\ Unwrap(response).status = 400
    /\ Unwrap(response).body = Some(JObj(<<<<"reason", JStr("BadDeviceToken")>>>>))
    /\ Unwrap(response).body_read = Some(TRUE)
    /\ Unwrap(result).kind = "APNError"
    /\ Unwrap(result).status = 400
    /\ Unwrap(result).error = Some([reason |-> "BadDeviceToken", timestamp |-> None])

\* C5: a response without apns-id makes push return InvalidResponseError
\* whatever its status and body, without reading the body; push returns a
\* receipt only for status 200 with apns-id present, and the receipt holds
\* the apns-id value and the apns-unique-id value, or None for the latter
\* when it is absent.
C5_MissingIdIsInvalidResponse ==
    /\ (response # None /\ Unwrap(response).received /\ Unwrap(response).apns_id = None)
          => /\ pc = "idle"
             /\ result = Some(Failure("InvalidResponseError"))
             /\ Unwrap(response).body_read = None
    /\ (result # None /\ Unwrap(result).kind = "Ok")
          => /\ Answered
             /\ Unwrap(response).status = 200
             /\ Unwrap(response).apns_id # None
             /\ Unwrap(result).response =
                   Some([id |-> Unwrap(Unwrap(response).apns_id),
                         unique_id |-> Unwrap(response).apns_unique_id])

\* C5 witness: a 400 without apns-id whose body decodes, returned as
\* InvalidResponseError.
C5_Witness ==
    /\ Answered
    /\ pc = "idle"
    /\ Unwrap(response).apns_id = None
    /\ Unwrap(response).status = 400
    /\ DecodeErrorResponse(Unwrap(response).body) # None
    /\ Unwrap(result).kind = "InvalidResponseError"

Returned == pc = "idle" /\ lastOpt # None /\ result # None

\* C6 as stated: a push whose option holds a value that is no valid header
\* content returns HeaderError and submits nothing; a submission follows a
\* successful sign and a successful header conversion.
C6_InvalidOptionIsHeaderError ==
    /\ (lastOpt # None /\ ~OptionValid(Unwrap(lastOpt)))
          => /\ request = None
             /\ Returned
             /\ Unwrap(result) = Failure("HeaderError")
    /\ request # None
          => /\ signOutcome = Some("Ok")
             /\ OptionValid(Unwrap(lastOpt))

\* C6 amended: such a push submits nothing and returns HeaderError when
\* sign succeeded, and the error of sign when it did not; a submission
\* follows a successful sign and a successful header conversion, and
\* carries that token and those headers.
C6_InvalidOptionSubmitsNothing ==
    /\ (lastOpt # None /\ ~OptionValid(Unwrap(lastOpt)))
          => /\ request = None
             /\ Returned
             /\ signOutcome = Some("Ok") => Unwrap(result) = Failure("HeaderError")
             /\ signOutcome # Some("Ok") => Unwrap(result) = Failure(Unwrap(signOutcome))
    /\ request # None
          => /\ signOutcome = Some("Ok")
             /\ OptionValid(Unwrap(lastOpt))
             /\ Unwrap(request).bearer = Unwrap(lastSign).tok
             /\ Unwrap(request).headers = TryIntoHeaders(Unwrap(lastOpt)).entries
    /\ sent <= calls

\* C6 witness: a push with a bad collapse id, after a successful sign,
\* returned HeaderError with nothing submitted.
C6_Witness ==
    /\ Returned
    /\ Unwrap(lastOpt).collapse_id = Some(BadText)
    /\ signOutcome = Some("Ok")
    /\ Unwrap(result).kind = "HeaderError"
    /\ request = None /\ sent = 0

=============================================================================
